---------------------------- MODULE Spec2Model ----------------------------
(***************************************************************************)
(* Single-variable constant propagation                                    *)
(* (clang/unittests/Analysis/FlowSensitive/                                *)
(*  SingleVarConstantPropagationTest.cpp): the ConstantPropagationLattice, *)
(* the transfer function of ConstantPropagationAnalysis, and the worklist  *)
(* fixpoint engine that drives them.                                       *)
(***************************************************************************)
EXTENDS Integers, Sequences, FiniteSets, TLC

(***************************************************************************)
(* Bounds of the model.                                                    *)
(***************************************************************************)
NumVars == 2
MaxValue == 2
NumBlocks == 3

\* `nullptr` as a VarDecl pointer; the declared variables are 1..NumVars.
NullVar == 0
Vars == 1..NumVars
\* R.Val.getInt().getExtValue() of the constants the programs use.
Values == 0..MaxValue

(***************************************************************************)
(* ConstantPropagationLattice.  llvm::Optional<VarValue> is a sequence of  *)
(* at most one VarValue: <<>> is llvm::None.                               *)
(***************************************************************************)
VarValue(V, C) == [Var |-> V, Value |-> C]

\* operator== of VarValue mutated: the values are compared with != .
VarValueEqValueDiffers(Lhs, Rhs) == Lhs.Var = Rhs.Var /\ Lhs.Value # Rhs.Value

VarValueEq(Lhs, Rhs) == Lhs.Var = Rhs.Var /\ Lhs.Value = Rhs.Value

OptionalEq(Lhs, Rhs) ==
    /\ Len(Lhs) = Len(Rhs)
    /\ (Len(Lhs) = 1 => VarValueEq(Lhs[1], Rhs[1]))

bottom == [Data |-> <<>>]

top == [Data |-> <<VarValue(NullVar, 0)>>]

Known(V, C) == [Data |-> <<VarValue(V, C)>>]

\* The elements the program constructs: bottom(), top(), and {{{Var, Value}}}
\* with a non-null Var.
Lattice == {bottom, top} \cup {Known(V, C) : V \in Vars, C \in Values}

LatticeEq(Lhs, Rhs) == OptionalEq(Lhs.Data, Rhs.Data)

\* join mutated: the `Other == bottom()` test is missing.
joinNoBottomTest(This, Other) ==
    IF LatticeEq(This, Other) \/ LatticeEq(This, top)
    THEN [This |-> This, Effect |-> "Unchanged"]
    ELSE IF LatticeEq(This, bottom)
         THEN [This |-> Other, Effect |-> "Changed"]
         ELSE [This |-> top, Effect |-> "Changed"]

\* join mutated: two different known values keep the receiver's.
joinKeepsReceiver(This, Other) ==
    IF LatticeEq(This, Other) \/ LatticeEq(Other, bottom) \/ LatticeEq(This, top)
    THEN [This |-> This, Effect |-> "Unchanged"]
    ELSE IF LatticeEq(This, bottom)
         THEN [This |-> Other, Effect |-> "Changed"]
         ELSE [This |-> This, Effect |-> "Changed"]

\* This.join(Other): the receiver after the call and the LatticeJoinEffect
\* it returns.
join(This, Other) ==
    IF LatticeEq(This, Other) \/ LatticeEq(Other, bottom) \/ LatticeEq(This, top)
    THEN [This |-> This, Effect |-> "Unchanged"]
    ELSE IF LatticeEq(This, bottom)
         THEN [This |-> Other, Effect |-> "Changed"]
         ELSE [This |-> top, Effect |-> "Changed"]

initialElement == bottom

(***************************************************************************)
(* Statements, as far as the matcher of transfer looks at them.            *)
(*   DeclStmt: a single VarDecl, its type integer or not, its initializer  *)
(*             absent (<<>>) or an expression;                             *)
(*   BinaryOperator: an opcode, the VarDecl its LHS refers to (NullVar     *)
(*             when the LHS is no DeclRefExpr to a variable) and its RHS;  *)
(*   Other:    any other statement, such as `(void)0`.                     *)
(* An expression is what EvaluateAsInt makes of it: IsInt says whether     *)
(* `E->EvaluateAsInt(R, Context) && R.Val.isInt()` holds, Val the value.   *)
(***************************************************************************)
ConstExpr(C) == [IsInt |-> TRUE, Val |-> C]

NonConstExpr == [IsInt |-> FALSE, Val |-> 0]

Exprs == {NonConstExpr} \cup {ConstExpr(C) : C \in Values}

DeclStmt(V, IsInteger, Init) ==
    [Node |-> "DeclStmt", Var |-> V, IsInteger |-> IsInteger, Init |-> Init,
     Opcode |-> "", RHS |-> NonConstExpr]

BinaryOperator(Op, V, E) ==
    [Node |-> "BinaryOperator", Var |-> V, IsInteger |-> FALSE, Init |-> <<>>,
     Opcode |-> Op, RHS |-> E]

OtherStmt ==
    [Node |-> "Other", Var |-> NullVar, IsInteger |-> FALSE, Init |-> <<>>,
     Opcode |-> "", RHS |-> NonConstExpr]

Opcodes == {"=", "+=", "-=", "+"}

isAssignmentOperator(Op) == Op \in {"=", "+=", "-="}

Stmts ==
    {DeclStmt(V, I, Init) : V \in Vars, I \in BOOLEAN,
                            Init \in {<<>>} \cup {<<E>> : E \in Exprs}}
    \cup {BinaryOperator(Op, V, E) :
              Op \in Opcodes, V \in Vars \cup {NullVar}, E \in Exprs}
    \cup {OtherStmt}

kVar == "var"
kInit == "init"
kJustAssignment == "just-assignment"
kAssignment == "assignment"
kRHS == "rhs"

\* match mutated: the third alternative of anyOf (any assignment operator)
\* is missing.
matchNoCompound(S) ==
    IF S.Node = "DeclStmt" /\ S.IsInteger /\ S.Init # <<>>
    THEN <<(kVar :> <<S.Var>>) @@ (kInit :> <<S.Init[1]>>)>>
    ELSE IF S.Node = "BinaryOperator" /\ S.Opcode = "=" /\ S.Var # NullVar
    THEN <<(kVar :> <<S.Var>>) @@ (kRHS :> <<S.RHS>>)
            @@ (kJustAssignment :> <<S>>)>>
    ELSE <<>>

\* match mutated: the alternative for any assignment operator is tried
\* before the one for `=`.
matchCompoundFirst(S) ==
    IF S.Node = "DeclStmt" /\ S.IsInteger /\ S.Init # <<>>
    THEN <<(kVar :> <<S.Var>>) @@ (kInit :> <<S.Init[1]>>)>>
    ELSE IF S.Node = "BinaryOperator" /\ isAssignmentOperator(S.Opcode)
            /\ S.Var # NullVar
    THEN <<(kVar :> <<S.Var>>) @@ (kAssignment :> <<S>>)>>
    ELSE IF S.Node = "BinaryOperator" /\ S.Opcode = "=" /\ S.Var # NullVar
    THEN <<(kVar :> <<S.Var>>) @@ (kRHS :> <<S.RHS>>)
            @@ (kJustAssignment :> <<S>>)>>
    ELSE <<>>

\* match(matcher, *S, Context): the bound nodes of the first alternative of
\* anyOf that matches S, or no result.
match(S) ==
    IF S.Node = "DeclStmt" /\ S.IsInteger /\ S.Init # <<>>
    THEN <<(kVar :> <<S.Var>>) @@ (kInit :> <<S.Init[1]>>)>>
    ELSE IF S.Node = "BinaryOperator" /\ S.Opcode = "=" /\ S.Var # NullVar
    THEN <<(kVar :> <<S.Var>>) @@ (kRHS :> <<S.RHS>>)
            @@ (kJustAssignment :> <<S>>)>>
    ELSE IF S.Node = "BinaryOperator" /\ isAssignmentOperator(S.Opcode)
            /\ S.Var # NullVar
    THEN <<(kVar :> <<S.Var>>) @@ (kAssignment :> <<S>>)>>
    ELSE <<>>

\* Nodes.getNodeAs<T>(ID): <<>> is the null pointer.
getNodeAs(Nodes, ID) == IF ID \in DOMAIN Nodes THEN Nodes[ID] ELSE <<>>

\* Evaluated mutated: a non-constant expression leaves nothing known
\* (bottom) instead of top.
EvaluatedNonConstBottom(Var, E) == IF E.IsInt THEN Known(Var, E.Val) ELSE bottom

\* Evaluated mutated: the constant is stored without its variable.
EvaluatedDropsVar(Var, E) == IF E.IsInt THEN Known(NullVar, E.Val) ELSE top

\* The element a constant or non-constant expression E gives variable Var.
Evaluated(Var, E) == IF E.IsInt THEN Known(Var, E.Val) ELSE top

\* transfer mutated: a constant for a variable other than the tracked one
\* drops the element to bottom instead of overwriting it.
transferForgetsOther(S, Element) ==
    LET Results == match(S) IN
    IF Results = <<>> THEN [Element |-> Element, Aborted |-> FALSE]
    ELSE LET Nodes == Results[1]
             Var == getNodeAs(Nodes, kVar)
             Store(E) == IF Element \in Lattice \ {bottom, top}
                            /\ Element.Data[1].Var # Var[1]
                         THEN bottom
                         ELSE Evaluated(Var[1], E)
         IN IF Var = <<>> THEN [Element |-> Element, Aborted |-> TRUE]
            ELSE IF getNodeAs(Nodes, kInit) # <<>>
            THEN [Element |-> Store(getNodeAs(Nodes, kInit)[1]),
                  Aborted |-> FALSE]
            ELSE IF getNodeAs(Nodes, kJustAssignment) # <<>>
            THEN LET RHS == getNodeAs(Nodes, kRHS) IN
                 IF RHS = <<>> THEN [Element |-> Element, Aborted |-> TRUE]
                 ELSE [Element |-> Store(RHS[1]), Aborted |-> FALSE]
            ELSE IF getNodeAs(Nodes, kAssignment) # <<>>
            THEN [Element |-> top, Aborted |-> FALSE]
            ELSE [Element |-> Element, Aborted |-> FALSE]

\* transfer mutated: a statement that matches nothing resets the element.
transferResetsUnmatched(S, Element) ==
    LET Results == match(S) IN
    IF Results = <<>> THEN [Element |-> top, Aborted |-> FALSE]
    ELSE LET Nodes == Results[1]
             Var == getNodeAs(Nodes, kVar)
         IN IF Var = <<>> THEN [Element |-> Element, Aborted |-> TRUE]
            ELSE IF getNodeAs(Nodes, kInit) # <<>>
            THEN [Element |-> Evaluated(Var[1], getNodeAs(Nodes, kInit)[1]),
                  Aborted |-> FALSE]
            ELSE IF getNodeAs(Nodes, kJustAssignment) # <<>>
            THEN LET RHS == getNodeAs(Nodes, kRHS) IN
                 IF RHS = <<>> THEN [Element |-> Element, Aborted |-> TRUE]
                 ELSE [Element |-> Evaluated(Var[1], RHS[1]), Aborted |-> FALSE]
            ELSE IF getNodeAs(Nodes, kAssignment) # <<>>
            THEN [Element |-> top, Aborted |-> FALSE]
            ELSE [Element |-> Element, Aborted |-> FALSE]

\* ConstantPropagationAnalysis::transfer(S, Element, Env): the element after
\* the call, and whether an assert of it failed.
transfer(S, Element) ==
    LET Results == match(S) IN
    IF Results = <<>> THEN [Element |-> Element, Aborted |-> FALSE]
    ELSE LET Nodes == Results[1]
             Var == getNodeAs(Nodes, kVar)
         IN IF Var = <<>> THEN [Element |-> Element, Aborted |-> TRUE]
            ELSE IF getNodeAs(Nodes, kInit) # <<>>
            THEN [Element |-> Evaluated(Var[1], getNodeAs(Nodes, kInit)[1]),
                  Aborted |-> FALSE]
            ELSE IF getNodeAs(Nodes, kJustAssignment) # <<>>
            THEN LET RHS == getNodeAs(Nodes, kRHS) IN
                 IF RHS = <<>> THEN [Element |-> Element, Aborted |-> TRUE]
                 ELSE [Element |-> Evaluated(Var[1], RHS[1]), Aborted |-> FALSE]
            ELSE IF getNodeAs(Nodes, kAssignment) # <<>>
            THEN [Element |-> top, Aborted |-> FALSE]
            ELSE [Element |-> Element, Aborted |-> FALSE]

(***************************************************************************)
(* State.                                                                  *)
(*   A lattice element in use: Start is the element a client begins with,  *)
(*   Element what it holds now, Prev what it held before the last          *)
(*   operation, Ops the operations applied so far (join(Other),            *)
(*   transfer(S) or a test's expectation), Effect the LatticeJoinEffect    *)
(*   the last join returned, Aborted whether an assert of transfer failed  *)
(*   and Matched what the matchers of the last expectation said (<<>>      *)
(*   before any).                                                          *)
(*   A run of the fixpoint engine: the control-flow graph (Succs, Body),   *)
(*   the block states (EntryState, ExitState), the Worklist, the blocks    *)
(*   Visited so far and the Phase of the run: "idle" when there is none,   *)
(*   "running" while the worklist is worked off, "done" after it.          *)
(*   Recorded[B] holds what the last processing of block B recorded: the   *)
(*   element before each of its statements and the one at its end (<<>>    *)
(*   while B has not been processed).  Marked is the set of program points *)
(*   the harness labelled and ResultStore the mapping from these points to *)
(*   elements that the finished run hands back.                            *)
(***************************************************************************)
VARIABLES Start, Element, Prev, Ops, Effect, Aborted, Matched,
          Succs, Body, EntryState, ExitState, Worklist, Visited, Phase,
          Recorded, Marked, ResultStore

latticeVars == <<Start, Element, Prev, Ops, Effect, Aborted, Matched>>
engineVars == <<Succs, Body, EntryState, ExitState, Worklist, Visited, Phase,
                Recorded, Marked, ResultStore>>
vars == <<Start, Element, Prev, Ops, Effect, Aborted, Matched,
          Succs, Body, EntryState, ExitState, Worklist, Visited, Phase,
          Recorded, Marked, ResultStore>>

JoinOp(Other) == [Op |-> "join", Other |-> Other, S |-> OtherStmt]
TransferOp(S) == [Op |-> "transfer", Other |-> bottom, S |-> S]
ExpectOp == [Op |-> "expect", Other |-> bottom, S |-> OtherStmt]

\* The matchers of the tests, applied to a lattice element.
HasConstantVal(arg, v) == arg.Data # <<>> /\ arg.Data[1].Value = v

IsUnknown(arg) == LatticeEq(arg, bottom)

Varies(arg) == LatticeEq(arg, top)

\* No engine run: the lattice element is used on its own.
NoEngine ==
    /\ Succs = <<>>
    /\ Body = <<>>
    /\ EntryState = <<>>
    /\ ExitState = <<>>
    /\ Worklist = {}
    /\ Visited = {}
    /\ Phase = "idle"
    /\ Recorded = <<>>
    /\ Marked = {}
    /\ ResultStore = <<>>

Init ==
    /\ Start \in Lattice
    /\ Element = Start
    /\ Prev = Start
    /\ Ops = <<>>
    /\ Effect = "none"
    /\ Aborted = FALSE
    /\ Matched = <<>>
    /\ NoEngine

\* Element.join(Other).  A client applies at most two operations in a row:
\* the laws of the lattice relate at most two joins.
Join(Other) ==
    /\ Len(Ops) < 2
    /\ ~Aborted
    /\ Element' = join(Element, Other).This
    /\ Effect' = join(Element, Other).Effect
    /\ Prev' = Element
    /\ Ops' = Append(Ops, JoinOp(Other))
    /\ UNCHANGED <<Start, Aborted, Matched>>
    /\ UNCHANGED engineVars

\* transfer(S, Element, Env).
Transfer(S) ==
    /\ Len(Ops) < 2
    /\ ~Aborted
    /\ Element' = transfer(S, Element).Element
    /\ Aborted' = transfer(S, Element).Aborted
    /\ Effect' = "none"
    /\ Prev' = Element
    /\ Ops' = Append(Ops, TransferOp(S))
    /\ UNCHANGED <<Start, Matched>>
    /\ UNCHANGED engineVars

\* EXPECT_THAT of a test: HasConstantVal(v), IsUnknown() and Varies() are
\* applied to the element.
ExpectThat(v) ==
    /\ Len(Ops) < 2
    /\ ~Aborted
    /\ Matched' = <<[v |-> v,
                     HasConstantVal |-> HasConstantVal(Element, v),
                     IsUnknown |-> IsUnknown(Element),
                     Varies |-> Varies(Element)]>>
    /\ Effect' = "none"
    /\ Prev' = Element
    /\ Ops' = Append(Ops, ExpectOp)
    /\ UNCHANGED <<Start, Element, Aborted>>
    /\ UNCHANGED engineVars

Next ==
    \/ \E Other \in Lattice : Join(Other)
    \/ \E S \in Stmts : Transfer(S)
    \/ \E v \in Values : ExpectThat(v)

Spec == Init /\ [][Next]_vars

(***************************************************************************)
(* The fixpoint engine.  The control-flow graph has blocks 1..NumBlocks:   *)
(* EntryBlock has no predecessor, ExitBlock is empty and has no successor, *)
(* every other edge may be there or not (branches, merges, loops,          *)
(* unreachable blocks).  A block's statements are one of BlockBodies.      *)
(***************************************************************************)
Blocks == 1..NumBlocks

EntryBlock == 1

ExitBlock == NumBlocks

BlockBodies ==
    { <<DeclStmt(1, TRUE, <<>>)>>,                            \* int target;
      <<DeclStmt(1, TRUE, <<ConstExpr(1)>>)>>,                \* int target = 1;
      <<BinaryOperator("=", 1, ConstExpr(2)), OtherStmt>>,    \* target = 2; (void)0;
      <<BinaryOperator("=", 2, ConstExpr(1))>> }              \* other = 1;

\* The element of a one-element set.  Intermediate results are bound as
\* elements of one-element sets, so that each is computed once.
The(S) == CHOOSE X \in S : TRUE

Preds(B) == {P \in Blocks : B \in Succs[P]}

RECURSIVE SortedSeq(_)
SortedSeq(S) ==
    IF S = {} THEN <<>>
    ELSE LET M == CHOOSE X \in S : \A Y \in S : X <= Y
         IN <<M>> \o SortedSeq(S \ {M})

\* Element joined with each element of Others in turn.
RECURSIVE JoinAll(_, _)
JoinAll(Elem, Others) ==
    IF Others = <<>> THEN Elem
    ELSE The({The({JoinAll(Joined, Rest) : Joined \in {join(Elem, Other).This},
                                           Rest \in {Tail(Others)}})
              : Other \in {Head(Others)}})

\* Step 3: the join over the current exit elements Exit of B's predecessors,
\* from the initial element for the entry block and from bottom otherwise.
JoinOfPreds(B, Exit) ==
    The({The({JoinAll(From, Exits) :
                  From \in {IF B = EntryBlock THEN initialElement ELSE bottom},
                  Exits \in {[I \in 1..Len(P) |-> Exit[P[I]]]}})
         : P \in {SortedSeq(Preds(B))}})

\* Step 4: transfer folded over a block's statements in source order.
RECURSIVE Fold(_, _)
Fold(Statements, Elem) ==
    IF Statements = <<>> THEN Elem
    ELSE The({The({Fold(Rest, After) : After \in {transfer(S, Elem).Element},
                                      Rest \in {Tail(Statements)}})
              : S \in {Head(Statements)}})

\* Step 4: the element before each statement of a block, and the one at its
\* end, when the block is entered with Elem.
RECURSIVE Record(_, _)
Record(Statements, Elem) ==
    IF Statements = <<>> THEN <<Elem>>
    ELSE The({The({<<Elem>> \o Record(Rest, After) :
                       After \in {transfer(S, Elem).Element},
                       Rest \in {Tail(Statements)}})
              : S \in {Head(Statements)}})

\* A program point <<B, I>> is the position before statement I of block B;
\* I = Len(Body[B]) + 1 is the position at the end of B, before its
\* terminator.
PointsOf(B) == {<<B, I>> : I \in 1..(Len(Body[B]) + 1)}

AllPoints == UNION {PointsOf(B) : B \in Blocks}

MaxBodyLen ==
    CHOOSE N \in {Len(Bd) : Bd \in BlockBodies} :
        \A Bd \in BlockBodies : Len(Bd) <= N

Positions == 1..(MaxBodyLen + 1)

\* The harness labels the points at the start of the blocks, or the points
\* at every later position.
LabelSets == {{1}, Positions \ {1}}

\* The points whose position in their block is one of Labels.
PointsAt(Labels) == {P \in AllPoints : P[2] \in Labels}

\* Section 4.4: the recorded elements of the marked points.
Materialise(Rec, Points) ==
    [P \in {Q \in Points : Rec[Q[1]] # <<>>} |-> Rec[P[1]][P[2]]]

\* No lattice client: the engine owns every element.
NoClient ==
    /\ Start = bottom
    /\ Element = bottom
    /\ Prev = bottom
    /\ Ops = <<>>
    /\ Effect = "none"
    /\ Aborted = FALSE
    /\ Matched = <<>>

\* Step 1, for any control-flow graph the caller may supply.
InitEngine ==
    /\ Succs \in [Blocks -> SUBSET (Blocks \ {EntryBlock})]
    /\ Succs[ExitBlock] = {}
    /\ Body \in [Blocks -> BlockBodies \cup {<<>>}]
    /\ Body[ExitBlock] = <<>>
    /\ \A B \in Blocks \ {ExitBlock} : Body[B] # <<>>
    /\ EntryState = [B \in Blocks |-> IF B = EntryBlock THEN initialElement ELSE bottom]
    /\ ExitState = [B \in Blocks |-> bottom]
    /\ Worklist = {EntryBlock}
    /\ Visited = {}
    /\ Phase = "running"
    /\ Recorded = [B \in Blocks |-> <<>>]
    /\ Marked = {}
    /\ ResultStore = <<>>
    /\ NoClient

\* Process mutated: step 5 enqueues only the successors that have not been
\* processed before.
ProcessEnqueuesUnvisited(B) ==
    /\ Phase = "running"
    /\ B \in Worklist
    /\ \E NewEntry \in {JoinOfPreds(B, ExitState)} :
       \E NewRecord \in {Record(Body[B], NewEntry)} :
       \E NewExit \in {NewRecord[Len(NewRecord)]} :
          /\ EntryState' = [EntryState EXCEPT ![B] = NewEntry]
          /\ ExitState' = [ExitState EXCEPT ![B] = NewExit]
          /\ Recorded' = [Recorded EXCEPT ![B] = NewRecord]
          /\ Worklist' = IF ~LatticeEq(NewExit, ExitState[B])
                         THEN (Worklist \ {B}) \cup (Succs[B] \ Visited)
                         ELSE Worklist \ {B}
    /\ Visited' = Visited \cup {B}
    /\ UNCHANGED <<Succs, Body, Phase, Marked, ResultStore>>
    /\ UNCHANGED latticeVars

\* Process mutated: step 4 records a block's elements on its first
\* processing only.
ProcessRecordsOnce(B) ==
    /\ Phase = "running"
    /\ B \in Worklist
    /\ \E NewEntry \in {JoinOfPreds(B, ExitState)} :
       \E NewRecord \in {Record(Body[B], NewEntry)} :
       \E NewExit \in {NewRecord[Len(NewRecord)]} :
          /\ EntryState' = [EntryState EXCEPT ![B] = NewEntry]
          /\ ExitState' = [ExitState EXCEPT ![B] = NewExit]
          /\ Recorded' = IF Recorded[B] = <<>>
                         THEN [Recorded EXCEPT ![B] = NewRecord]
                         ELSE Recorded
          /\ Worklist' = IF ~LatticeEq(NewExit, ExitState[B])
                         THEN (Worklist \ {B}) \cup Succs[B]
                         ELSE Worklist \ {B}
    /\ Visited' = Visited \cup {B}
    /\ UNCHANGED <<Succs, Body, Phase, Marked, ResultStore>>
    /\ UNCHANGED latticeVars

\* Steps 2 to 5 for one block B taken from the worklist.
Process(B) ==
    /\ Phase = "running"
    /\ B \in Worklist
    /\ \E NewEntry \in {JoinOfPreds(B, ExitState)} :
       \E NewRecord \in {Record(Body[B], NewEntry)} :
       \E NewExit \in {NewRecord[Len(NewRecord)]} :
          /\ EntryState' = [EntryState EXCEPT ![B] = NewEntry]
          /\ ExitState' = [ExitState EXCEPT ![B] = NewExit]
          /\ Recorded' = [Recorded EXCEPT ![B] = NewRecord]
          /\ Worklist' = IF ~LatticeEq(NewExit, ExitState[B])
                         THEN (Worklist \ {B}) \cup Succs[B]
                         ELSE Worklist \ {B}
    /\ Visited' = Visited \cup {B}
    /\ UNCHANGED <<Succs, Body, Phase, Marked, ResultStore>>
    /\ UNCHANGED latticeVars

\* Step 6 and section 4.4: the run ends, and the elements recorded at the
\* points the harness labelled (those at the positions Labels) become the
\* ResultStore.
Terminate(Labels) ==
    /\ Phase = "running"
    /\ Worklist = {}
    /\ Phase' = "done"
    /\ Marked' = PointsAt(Labels)
    /\ ResultStore' = Materialise(Recorded, PointsAt(Labels))
    /\ UNCHANGED <<Succs, Body, EntryState, ExitState, Worklist, Visited,
                   Recorded>>
    /\ UNCHANGED latticeVars

NextEngine ==
    \/ \E B \in Blocks : Process(B)
    \/ \E Labels \in LabelSets : Terminate(Labels)

SpecEngine == InitEngine /\ [][NextEngine]_vars

\* The engine is one synchronous loop: it takes a step whenever it can.
SpecEngineFair == SpecEngine /\ WF_vars(NextEngine)

(***************************************************************************)
(* The order of the lattice, bottom < known(v, c) < top with different     *)
(* known values incomparable, and the statement kinds the properties       *)
(* speak of.                                                               *)
(***************************************************************************)
Leq(A, B) == A = bottom \/ B = top \/ A = B

IsUpperBound(U, A, B) == Leq(A, U) /\ Leq(B, U)

Lub(A, B) ==
    CHOOSE U \in Lattice :
        /\ IsUpperBound(U, A, B)
        /\ \A W \in Lattice : IsUpperBound(W, A, B) => Leq(U, W)

IsKnown(L) == L \in Lattice \ {bottom, top}

ConstantDecl(S) ==
    S.Node = "DeclStmt" /\ S.IsInteger /\ S.Init # <<>> /\ S.Init[1].IsInt

NonConstantDecl(S) ==
    S.Node = "DeclStmt" /\ S.IsInteger /\ S.Init # <<>> /\ ~S.Init[1].IsInt

ConstantAssignment(S) ==
    S.Node = "BinaryOperator" /\ S.Opcode = "=" /\ S.Var # NullVar /\ S.RHS.IsInt

NonConstantAssignment(S) ==
    S.Node = "BinaryOperator" /\ S.Opcode = "=" /\ S.Var # NullVar /\ ~S.RHS.IsInt

CompoundAssignment(S) ==
    S.Node = "BinaryOperator" /\ S.Opcode \in {"+=", "-="} /\ S.Var # NullVar

MatchesNoRule(S) ==
    ~(\/ ConstantDecl(S) \/ NonConstantDecl(S)
      \/ ConstantAssignment(S) \/ NonConstantAssignment(S)
      \/ CompoundAssignment(S))

AssignedConstant(S) == IF S.Node = "DeclStmt" THEN S.Init[1].Val ELSE S.RHS.Val

Joined(N) == Len(Ops) >= N /\ Ops[N].Op = "join"
Transferred(N) == Len(Ops) >= N /\ Ops[N].Op = "transfer"
LastJoined == Len(Ops) >= 1 /\ Ops[Len(Ops)].Op = "join"
LastTransferred == Len(Ops) >= 1 /\ Ops[Len(Ops)].Op = "transfer"
LastOther == Ops[Len(Ops)].Other
LastS == Ops[Len(Ops)].S

(***************************************************************************)
(* C1: with X the element a client starts with and Y, Z the arguments of   *)
(* its joins: X join X = X; X join Y = Y join X;                           *)
(* (X join Y) join Z = X join (Y join Z); bottom join X = X;               *)
(* top join X = top, where A join B is the receiver after A.join(B).       *)
(***************************************************************************)
C1_JoinLaws ==
    /\ (Len(Ops) = 1 /\ Joined(1) /\ Ops[1].Other = Start) => Element = Start
    /\ (Len(Ops) = 1 /\ Joined(1)) => Element = join(Ops[1].Other, Start).This
    /\ (Len(Ops) = 2 /\ Joined(1) /\ Joined(2)) =>
           Element = join(Start, join(Ops[1].Other, Ops[2].Other).This).This
    /\ (Len(Ops) = 1 /\ Joined(1) /\ Start = bottom) => Element = Ops[1].Other
    /\ (LastJoined /\ Prev = top) => Element = top

\* Three different known values joined one after the other.
C1_Witness ==
    /\ Len(Ops) = 2 /\ Joined(1) /\ Joined(2)
    /\ Start = Known(1, 1)
    /\ Ops[1].Other = Known(1, 2)
    /\ Ops[2].Other = Known(2, 1)
    /\ Element = top

(***************************************************************************)
(* C2: A.join(B) leaves the receiver equal to the least upper bound of the *)
(* old A and B in the order bottom < known(v, c) < top, and returns        *)
(* Changed exactly when the receiver differs from what it was.             *)
(***************************************************************************)
C2_JoinIsLub ==
    LastJoined =>
        /\ Element = Lub(Prev, LastOther)
        /\ (Effect = "Changed" <=> Element # Prev)

\* Two known values of different variables: the join is top, and Changed.
C2_Witness ==
    /\ LastJoined
    /\ Prev = Known(1, 1)
    /\ LastOther = Known(2, 1)
    /\ Element = top
    /\ Effect = "Changed"

(***************************************************************************)
(* C3: transfer is monotone: for the statement S just applied to X = Prev, *)
(* and every Y with X below or equal Y, transfer(S, X) is below or equal   *)
(* transfer(S, Y).                                                         *)
(***************************************************************************)
C3_TransferMonotone ==
    LastTransferred =>
        \A Y \in Lattice :
            Leq(Prev, Y) => Leq(Element, transfer(LastS, Y).Element)

\* A constant assignment applied to bottom, which lies below every element.
C3_Witness ==
    /\ LastTransferred
    /\ ConstantAssignment(LastS)
    /\ Prev = bottom
    /\ IsKnown(Element)
    /\ \E Y \in Lattice : Y # Prev /\ Leq(Prev, Y) /\ IsKnown(Y)

(***************************************************************************)
(* C4: a declaration with a constant integer initializer, or `var = expr`  *)
(* with a constant RHS, leaves known(that variable, the constant) whatever *)
(* the element was; after a sequence of such statements the element is     *)
(* that of the last one.                                                   *)
(***************************************************************************)
C4_ConstantStored ==
    (LastTransferred /\ (ConstantDecl(LastS) \/ ConstantAssignment(LastS))) =>
        /\ Element = Known(LastS.Var, AssignedConstant(LastS))
        /\ ~Aborted

\* `int other = 2; target = 1;` with target = 1, other = 2: the element
\* before the assignment tracks the other variable, after it the target.
C4_Witness ==
    /\ Len(Ops) = 2 /\ Transferred(1) /\ Transferred(2)
    /\ Ops[1].S = DeclStmt(2, TRUE, <<ConstExpr(2)>>)
    /\ Ops[2].S = BinaryOperator("=", 1, ConstExpr(1))
    /\ Prev = Known(2, 2)
    /\ Element = Known(1, 1)

(***************************************************************************)
(* C5: a declaration with a non-constant initializer, or `var = expr` with *)
(* a non-constant RHS, leaves top whatever the element was, and no assert  *)
(* fails.                                                                  *)
(***************************************************************************)
C5_NonConstantIsTop ==
    (LastTransferred /\ (NonConstantDecl(LastS) \/ NonConstantAssignment(LastS))) =>
        /\ Element = top
        /\ ~Aborted

\* `target = g()` where target was known.
C5_Witness ==
    /\ LastTransferred
    /\ NonConstantAssignment(LastS)
    /\ LastS.Var = 1
    /\ Prev = Known(1, 1)
    /\ Element = top
    /\ ~Aborted

(***************************************************************************)
(* C6: a compound assignment to a variable leaves top whatever the element *)
(* was, also when it was a known value of that variable.                   *)
(***************************************************************************)
C6_CompoundIsTop ==
    (LastTransferred /\ CompoundAssignment(LastS)) => Element = top

\* `target += 2` where target was known to be 1.
C6_Witness ==
    /\ LastTransferred
    /\ LastS = BinaryOperator("+=", 1, ConstExpr(2))
    /\ Prev = Known(1, 1)
    /\ Element = top

(***************************************************************************)
(* C7: a statement that matches none of the three rules leaves the element *)
(* unchanged; from bottom, the element after only such statements is       *)
(* bottom.                                                                 *)
(***************************************************************************)
C7_UnmatchedIsIdentity ==
    /\ (LastTransferred /\ MatchesNoRule(LastS)) => Element = Prev
    /\ (/\ Start = bottom
        /\ \A N \in 1..Len(Ops) : Transferred(N) /\ MatchesNoRule(Ops[N].S))
           => Element = bottom

\* `int target; (void)0;` from the initial element.
C7_Witness ==
    /\ Len(Ops) = 2
    /\ Start = bottom
    /\ Ops[1] = TransferOp(DeclStmt(1, TRUE, <<>>))
    /\ Ops[2] = TransferOp(OtherStmt)
    /\ Element = bottom

(***************************************************************************)
(* Properties of a run of the engine.                                      *)
(***************************************************************************)
Done == Phase = "done"

IdentityOnly(B) == \A I \in 1..Len(Body[B]) : MatchesNoRule(Body[B][I])

IsMerge(B) == Cardinality(Preds(B)) >= 2

(***************************************************************************)
(* C8: at termination, for a block with two or more predecessors: if all   *)
(* predecessors' exit elements are the same known(v, c), the block's entry *)
(* element (and its exit element, when it holds only identity statements)  *)
(* is that known value; if two predecessors' exit elements are known       *)
(* values that differ in value or in variable, the entry element is top.   *)
(***************************************************************************)
C8_MergeAtTermination ==
    Done =>
        \A B \in Blocks :
            IsMerge(B) =>
                /\ \A P \in Preds(B) :
                       (/\ IsKnown(ExitState[P])
                        /\ \A Q \in Preds(B) : ExitState[Q] = ExitState[P])
                       => /\ EntryState[B] = ExitState[P]
                          /\ IdentityOnly(B) => ExitState[B] = ExitState[P]
                /\ \A P, Q \in Preds(B) :
                       (/\ IsKnown(ExitState[P])
                        /\ IsKnown(ExitState[Q])
                        /\ ExitState[P] # ExitState[Q])
                       => /\ EntryState[B] = top
                          /\ IdentityOnly(B) => ExitState[B] = top

\* `int target = 1; if (b) { other = 1; }`: the branch and the fall-through
\* reach the merge block with the same value of different variables.
C8_Witness ==
    /\ Done
    /\ Succs[EntryBlock] = {2, ExitBlock}
    /\ Succs[2] = {ExitBlock}
    /\ ExitState[EntryBlock] = Known(1, 1)
    /\ ExitState[2] = Known(2, 1)
    /\ EntryState[ExitBlock] = top
    /\ ExitState[ExitBlock] = top

(***************************************************************************)
(* C9: whatever the control-flow graph (loops included) and whatever the   *)
(* order in which blocks leave the worklist, the engine reaches an empty   *)
(* worklist and terminates.                                                *)
(***************************************************************************)
C9_Terminates == <>(Worklist = {} /\ Done)

\* A run that ended after going round a loop: the loop block was processed
\* with the element its own exit fed back.
C9_Witness ==
    /\ Done
    /\ Worklist = {}
    /\ 2 \in Succs[2]
    /\ 2 \in Succs[EntryBlock]
    /\ IdentityOnly(2)
    /\ IsKnown(EntryState[2])
    /\ ExitState[2] = EntryState[2]

(***************************************************************************)
(* C10: when the engine has terminated, the block states are the least     *)
(* fixpoint of the dataflow equations: at every block (here: every block   *)
(* reachable from the entry block, which the claim includes) the entry     *)
(* element is the join of the predecessors' exit elements (from the        *)
(* initial element for the entry block), the exit element is the fold of   *)
(* transfer over the block's statements from the entry element, and no     *)
(* assignment satisfying the equations is strictly smaller at any block.   *)
(***************************************************************************)
RECURSIVE ReachableIn(_, _)
ReachableIn(Seen, N) ==
    IF N = 0 THEN Seen
    ELSE ReachableIn(Seen \cup UNION {Succs[B] : B \in Seen}, N - 1)

Reachable == ReachableIn({EntryBlock}, NumBlocks)

\* Exit elements Exit solve the equations at every block.
SolvesEquations(Exit) ==
    \A B \in Blocks : Exit[B] = Fold(Body[B], JoinOfPreds(B, Exit))

StrictlyBelow(A, B) == Leq(A, B) /\ A # B

C10_LeastFixpoint ==
    Done =>
        /\ \A B \in Reachable :
               /\ EntryState[B] = JoinOfPreds(B, ExitState)
               /\ ExitState[B] = Fold(Body[B], EntryState[B])
        /\ \A Exit \in [Blocks -> Lattice] :
               SolvesEquations(Exit) =>
                   \A B \in Blocks :
                       /\ ~StrictlyBelow(Exit[B], ExitState[B])
                       /\ ~StrictlyBelow(JoinOfPreds(B, Exit), EntryState[B])

(***************************************************************************)
(* The run that always takes the least block of the worklist, as a         *)
(* function of the control-flow graph: steps 2 to 5 applied to the run     *)
(* state St = [Entry, Exit, Rec, Work] until the worklist is empty.        *)
(***************************************************************************)
Least(S) == CHOOSE X \in S : \A Y \in S : X <= Y

StepOf(St, B) ==
    The({The({[Entry |-> [St.Entry EXCEPT ![B] = NewEntry],
               Exit |-> [St.Exit EXCEPT ![B] = NewRecord[Len(NewRecord)]],
               Rec |-> [St.Rec EXCEPT ![B] = NewRecord],
               Work |-> IF ~LatticeEq(NewRecord[Len(NewRecord)], St.Exit[B])
                        THEN (St.Work \ {B}) \cup Succs[B]
                        ELSE St.Work \ {B}]
              : NewRecord \in {Record(Body[B], NewEntry)}})
         : NewEntry \in {JoinOfPreds(B, St.Exit)}})

RECURSIVE RunLeastFirst(_)
RunLeastFirst(St) ==
    IF St.Work = {} THEN St
    ELSE The({RunLeastFirst(After) : After \in {StepOf(St, Least(St.Work))}})

LeastFirstRun ==
    RunLeastFirst([Entry |-> [B \in Blocks |->
                                 IF B = EntryBlock THEN initialElement ELSE bottom],
                   Exit |-> [B \in Blocks |-> bottom],
                   Rec |-> [B \in Blocks |-> <<>>],
                   Work |-> {EntryBlock}])

(***************************************************************************)
(* C11: for a fixed control-flow graph, initial element and transfer       *)
(* function, runs that differ only in the order in which blocks leave the  *)
(* worklist end with the same ResultStore: whatever the order, the         *)
(* finished run's ResultStore has the points and the elements that the     *)
(* least-block-first run of the same graph gives the same labels.          *)
(***************************************************************************)
C11_OrderIndependent ==
    Done => ResultStore = Materialise(LeastFirstRun.Rec, Marked)

\* `int target = 1; if (b) { other = 1; }` with a label at the end of each
\* block: the merge block may leave the worklist before or after the
\* branch, and its point holds the join of both paths.
C11_Witness ==
    /\ Done
    /\ Succs[EntryBlock] = {2, ExitBlock}
    /\ Succs[2] = {ExitBlock}
    /\ Body[EntryBlock] = <<DeclStmt(1, TRUE, <<ConstExpr(1)>>)>>
    /\ Body[2] = <<BinaryOperator("=", 2, ConstExpr(1))>>
    /\ <<ExitBlock, 1>> \in Marked
    /\ ResultStore[<<ExitBlock, 1>>] = top

(***************************************************************************)
(* C12: after the run has terminated, the keys of the ResultStore are the  *)
(* marked points: every marked point in a block reachable from the entry   *)
(* block has an entry, and no unmarked position has one.                   *)
(***************************************************************************)
C12_KeysAreMarkedPoints ==
    Done =>
        /\ \A P \in Marked : P[1] \in Reachable => P \in DOMAIN ResultStore
        /\ DOMAIN ResultStore \subseteq Marked

(***************************************************************************)
(* C15: every block reachable from the entry block has been taken from the *)
(* worklist and processed at least once when the worklist is empty, also   *)
(* when its predecessors' exit elements never differ from bottom.          *)
(***************************************************************************)
C15_ReachableProcessed ==
    Worklist = {} => Reachable \subseteq Visited

(***************************************************************************)
(* The function of SameAssignmentInBranches: the entry block holds         *)
(* `int target;` and ends in a conditional (two or more successors), and   *)
(* every arm that holds statements assigns target.  The pre-branch point   *)
(* is the position at the end of the entry block.                          *)
(***************************************************************************)
PlainDecl(S) == S.Node = "DeclStmt" /\ S.IsInteger /\ S.Init = <<>>

Assigns(B, V) ==
    \E I \in 1..Len(Body[B]) :
        /\ Body[B][I].Node = "BinaryOperator"
        /\ Body[B][I].Opcode = "="
        /\ Body[B][I].Var = V

DeclThenConditional ==
    /\ Len(Body[EntryBlock]) = 1
    /\ PlainDecl(Body[EntryBlock][1])
    /\ Cardinality(Succs[EntryBlock]) >= 2
    /\ \A A \in Succs[EntryBlock] :
           Body[A] # <<>> => Assigns(A, Body[EntryBlock][1].Var)

PreBranchPoint == <<EntryBlock, Len(Body[EntryBlock]) + 1>>

C14_StoredFromFinalEntry ==
    Done =>
        \A P \in DOMAIN ResultStore :
            ResultStore[P] =
                Fold(SubSeq(Body[P[1]], 1, P[2] - 1), JoinOfPreds(P[1], ExitState))

\* `int target = 1; while (b) { target = 2; (void)0; }`: the loop block is
\* first entered with known(target, 1), recorded at its first point, and
\* entered again with top once its own exit known(target, 2) flows back.
C14_Witness ==
    /\ Done
    /\ Body[EntryBlock] = <<DeclStmt(1, TRUE, <<ConstExpr(1)>>)>>
    /\ Body[2] = <<BinaryOperator("=", 1, ConstExpr(2)), OtherStmt>>
    /\ Preds(2) = {EntryBlock, 2}
    /\ <<2, 1>> \in DOMAIN ResultStore
    /\ ResultStore[<<2, 1>>] = top
    /\ ExitState[EntryBlock] = Known(1, 1)

(***************************************************************************)
(* C16: one transfer rule is applied per statement, in the order           *)
(* declaration with initializer, plain assignment, compound assignment:    *)
(* the bound nodes of a matched statement name exactly one of the three    *)
(* rules, the first that fits, and a plain `var = <constant>`, which also  *)
(* fits the pattern for any assignment operator, leaves known(var,         *)
(* constant) and never top.                                                *)
(***************************************************************************)
RulesBound(S) ==
    IF match(S) = <<>> THEN {}
    ELSE {kInit, kJustAssignment, kAssignment} \cap DOMAIN match(S)[1]

FitsDecl(S) == S.Node = "DeclStmt" /\ S.IsInteger /\ S.Init # <<>>

FitsPlain(S) == S.Node = "BinaryOperator" /\ S.Opcode = "=" /\ S.Var # NullVar

FitsAnyAssignment(S) ==
    S.Node = "BinaryOperator" /\ isAssignmentOperator(S.Opcode) /\ S.Var # NullVar

C16_FirstRuleWins ==
    LastTransferred =>
        /\ Cardinality(RulesBound(LastS)) <= 1
        /\ FitsDecl(LastS) => RulesBound(LastS) = {kInit}
        /\ (~FitsDecl(LastS) /\ FitsPlain(LastS)) =>
               RulesBound(LastS) = {kJustAssignment}
        /\ (~FitsDecl(LastS) /\ ~FitsPlain(LastS) /\ FitsAnyAssignment(LastS)) =>
               RulesBound(LastS) = {kAssignment}
        /\ (FitsPlain(LastS) /\ LastS.RHS.IsInt) =>
               /\ FitsAnyAssignment(LastS)
               /\ Element = Known(LastS.Var, LastS.RHS.Val)
               /\ Element # top

\* `target = 1` applied to an element that already was top.
C16_Witness ==
    /\ LastTransferred
    /\ LastS = BinaryOperator("=", 1, ConstExpr(1))
    /\ FitsPlain(LastS) /\ FitsAnyAssignment(LastS)
    /\ Prev = top
    /\ Element = Known(1, 1)

(***************************************************************************)
(* Running the fixpoint loop again.  The run starts from the state a       *)
(* finished run of the graph leaves (that of the least-block-first run:    *)
(* every order ends there), with every block on the worklist again, the    *)
(* block states kept, every point labelled and the ResultStore as it was   *)
(* handed back.                                                            *)
(***************************************************************************)
InitRerun ==
    /\ Succs \in [Blocks -> SUBSET (Blocks \ {EntryBlock})]
    /\ Succs[ExitBlock] = {}
    /\ Body \in [Blocks -> BlockBodies \cup {<<>>}]
    /\ Body[ExitBlock] = <<>>
    /\ \A B \in Blocks \ {ExitBlock} : Body[B] # <<>>
    /\ \E Stable \in {LeastFirstRun} :
           /\ EntryState = Stable.Entry
           /\ ExitState = Stable.Exit
           /\ Recorded = Stable.Rec
           /\ Visited = {B \in Blocks : Stable.Rec[B] # <<>>}
           /\ ResultStore = Materialise(Stable.Rec, AllPoints)
    /\ Marked = AllPoints
    /\ Worklist = Blocks
    /\ Phase = "running"
    /\ NoClient

\* Step 6 of the second run: the ResultStore is made again from what is
\* recorded now, for the same labels.
Finish ==
    /\ Phase = "running"
    /\ Worklist = {}
    /\ Phase' = "done"
    /\ ResultStore' = Materialise(Recorded, Marked)
    /\ UNCHANGED <<Succs, Body, EntryState, ExitState, Worklist, Visited,
                   Recorded, Marked>>
    /\ UNCHANGED latticeVars

NextRerun ==
    \/ \E B \in Blocks : Process(B)
    \/ Finish

SpecRerun == InitRerun /\ [][NextRerun]_vars

(***************************************************************************)
(* C17: running the loop again from a stabilized state, with all blocks    *)
(* re-enqueued and the block states kept, changes no block's entry or exit *)
(* element and no ResultStore entry, and enqueues no successor (here for   *)
(* the graphs all of whose blocks are reachable from the entry block).     *)
(***************************************************************************)
C17_RerunChangesNothing ==
    [][(Reachable = Blocks) =>
           /\ EntryState' = EntryState
           /\ ExitState' = ExitState
           /\ ResultStore' = ResultStore
           /\ Worklist' \subseteq Worklist]_vars

(***************************************************************************)
(* C18: throughout a run each block's entry element and exit element only  *)
(* move upward in the order bottom < known < top from one step to the      *)
(* next, and every change of an exit element raises its rank (0 for        *)
(* bottom, 1 for a known value, 2 for top), so that an exit element        *)
(* changes at most twice.                                                  *)
(***************************************************************************)
Rank(L) == IF L = bottom THEN 0 ELSE IF L = top THEN 2 ELSE 1

C18_MonotoneAscent ==
    [][\A B \in Blocks :
           /\ Leq(EntryState[B], EntryState'[B])
           /\ Leq(ExitState[B], ExitState'[B])
           /\ ExitState'[B] # ExitState[B] =>
                  Rank(ExitState'[B]) > Rank(ExitState[B])]_vars

\* `int target = 1; if (b) { other = 1; }`: the merge block was processed
\* after the entry block alone, its exit element went from bottom to
\* known(target, 1), and it is on the worklist again now that the branch
\* has left known(other, 1): its exit element is about to change a second
\* time, to top.
C18_Witness ==
    /\ Phase = "running"
    /\ Preds(ExitBlock) = {EntryBlock, 2}
    /\ ExitBlock \in Visited
    /\ ExitBlock \in Worklist
    /\ ExitState[EntryBlock] = Known(1, 1)
    /\ ExitState[2] = Known(2, 1)
    /\ EntryState[ExitBlock] = Known(1, 1)
    /\ ExitState[ExitBlock] = Known(1, 1)

(***************************************************************************)
(* C19: every element that join and transfer produce from an element of    *)
(* the lattice is exactly one of bottom (no data), top (null variable,     *)
(* value 0) and known (non-null variable and a value); transfer produces   *)
(* no element with a null variable other than top; and a statement that    *)
(* matches always has its variable bound, so that the assert on the bound  *)
(* variable never fails and no element is produced without one.            *)
(***************************************************************************)
IsBottom(L) == L.Data = <<>>

IsTop(L) == L.Data # <<>> /\ L.Data[1].Var = NullVar /\ L.Data[1].Value = 0

IsKnownValue(L) == L.Data # <<>> /\ L.Data[1].Var # NullVar

ExactlyOneKind(L) ==
    Cardinality({K \in {"bottom", "top", "known"} :
                    \/ K = "bottom" /\ IsBottom(L)
                    \/ K = "top" /\ IsTop(L)
                    \/ K = "known" /\ IsKnownValue(L)}) = 1

C19_ExactlyOneKind ==
    /\ ExactlyOneKind(Element)
    /\ LastTransferred =>
           /\ (Element.Data # <<>> /\ Element.Data[1].Var = NullVar) => Element = top
           /\ match(LastS) # <<>> =>
                  /\ getNodeAs(match(LastS)[1], kVar) # <<>>
                  /\ getNodeAs(match(LastS)[1], kVar)[1] # NullVar
           /\ ~Aborted

\* From bottom, `target = 1` leaves a known value and `target += 1` top:
\* one element of each kind.
C19_Witness ==
    /\ Len(Ops) = 2 /\ Transferred(1) /\ Transferred(2)
    /\ Ops[1].S = BinaryOperator("=", 1, ConstExpr(1))
    /\ Ops[2].S = BinaryOperator("+=", 1, ConstExpr(1))
    /\ IsBottom(Start) /\ IsKnownValue(Prev) /\ IsTop(Element)

(***************************************************************************)
(* C20: for every element L and every integer v, HasConstantVal(v) holds   *)
(* for L only if L is a known value (non-null variable) whose value is v,  *)
(* never when L is top or bottom, and HasConstantVal(v), Varies and        *)
(* IsUnknown are mutually exclusive on every element.                      *)
(***************************************************************************)
LastExpected == Len(Ops) >= 1 /\ Ops[Len(Ops)].Op = "expect"

C20_MatchersExclusive ==
    LastExpected =>
        /\ Matched[1].HasConstantVal =>
               /\ IsKnownValue(Element)
               /\ Element.Data[1].Value = Matched[1].v
               /\ Element # top
               /\ Element # bottom
        /\ ~(Matched[1].HasConstantVal /\ Matched[1].Varies)
        /\ ~(Matched[1].HasConstantVal /\ Matched[1].IsUnknown)
        /\ ~(Matched[1].Varies /\ Matched[1].IsUnknown)

=============================================================================
